---------------------------- MODULE Spec2Model ----------------------------
(***************************************************************************)
(* Model of the folder-download engine (package downloader): listing,      *)
(* destination directory creation, the worker pool fed by the jobs         *)
(* channel, the per-object download and the aggregation loop that builds   *)
(* the DownloadResult.                                                     *)
(*                                                                         *)
(* Strings are sequences of one-character strings; a local path is the     *)
(* sequence of its segments after filepath.Clean, the empty sequence being *)
(* the filesystem root "/".                                                *)
(***************************************************************************)
EXTENDS Integers, Sequences, FiniteSets, TLC

\* ------------------------------------------------------------------ bounds
\* longest listing the provider returns
MaxObjects == 2
\* largest configured number of workers
MaxConcurrency == 2
\* longest key and longest prefix handed to the path mapping on its own
MaxKeyLen == 3
MaxPrefixLen == 2

\* ------------------------------------------------------------ input pools
Slash == "/"

KeyDA == <<"d", "a">>
KeyDSlashA == <<"d", Slash, "a">>
KeyMarker == <<"d", Slash, "a", Slash>>
KeyEmpty == <<>>

KeyPool == {KeyDA, KeyDSlashA, KeyMarker, KeyEmpty}

\* the remote objects a listing is drawn from, with their declared sizes
\* (the marker declares a size although it has no content to transfer)
ObjectPool ==
    {[Key |-> KeyDA, Size |-> 1],
     [Key |-> KeyDSlashA, Size |-> 2],
     [Key |-> KeyMarker, Size |-> 1],
     [Key |-> KeyEmpty, Size |-> 0]}

PrefixPool == {<<"d">>, <<"d", Slash>>}

\* destination directory "/out"
LocalDir == << <<"o", "u", "t">> >>

\* content a previous run may have left at /out/a
StaleData == <<"old", "old", "old">>

\* a key with a ".." segment after the prefix "d"
TraversalKey == <<"d", Slash, ".", ".", Slash, "a">>

\* ------------------------------------------------------- provider.Object
DistinctKeys(s) == \A i, j \in DOMAIN s : i # j => s[i].Key # s[j].Key

ListingSet ==
    {s \in UNION {[1..n -> ObjectPool] : n \in 0..MaxObjects} : DistinctKeys(s)}

\* listings of one object whose key has a ".." segment
TraversalListings == {<<[Key |-> TraversalKey, Size |-> 1]>>}

\* bytes of the remote object: as many bytes as the listing declares, each
\* tagged with the object's key so that two objects never share content
RemoteData(obj) == [i \in 1..obj.Size |-> obj.Key]

\* ------------------------------------------------------------- NewDownloader
DefaultConcurrency == 5

\* variant: the configured value is used as it is
NewDownloaderConcurrencyNoDefault(c) == c

NewDownloaderConcurrency(c) == IF c <= 0 THEN DefaultConcurrency ELSE c

\* ---------------------------------------------------------- path mapping
\* variant: the prefix is stripped without testing that it is non-empty
relativePathNoEmptyTest(key, prefix) ==
    IF Len(key) > Len(prefix)
    THEN LET r == SubSeq(key, Len(prefix) + 1, Len(key))
         IN  IF r[1] = Slash THEN Tail(r) ELSE r
    ELSE key

\* relativePath as downloadObject computes it (lines 297-303)
relativePath(key, prefix) ==
    IF prefix # <<>> /\ Len(key) > Len(prefix)
    THEN LET r == SubSeq(key, Len(prefix) + 1, Len(key))
         IN  IF r[1] = Slash THEN Tail(r) ELSE r
    ELSE key

RECURSIVE SplitAcc(_, _, _)
SplitAcc(s, cur, acc) ==
    IF s = <<>> THEN Append(acc, cur)
    ELSE IF Head(s) = Slash THEN SplitAcc(Tail(s), <<>>, Append(acc, cur))
    ELSE SplitAcc(Tail(s), Append(cur, Head(s)), acc)

\* the segments of a slash-separated string
Split(s) == SplitAcc(s, <<>>, <<>>)

Front(p) == SubSeq(p, 1, Len(p) - 1)

RECURSIVE CleanAcc(_, _)
CleanAcc(segs, acc) ==
    IF segs = <<>> THEN acc
    ELSE LET h == Head(segs)
         IN  IF h = <<>> \/ h = <<".">> THEN CleanAcc(Tail(segs), acc)
             ELSE IF h = <<".", ".">>
                  THEN CleanAcc(Tail(segs), IF acc = <<>> THEN acc ELSE Front(acc))
                  ELSE CleanAcc(Tail(segs), Append(acc, h))

\* filepath.Clean of a rooted path given by its raw segments
Clean(segs) == CleanAcc(segs, <<>>)

\* filepath.Join(localDir, relativePath)
Join(dir, rel) == Clean(dir \o Split(rel))

\* filepath.Dir of a cleaned rooted path
Dir(p) == IF p = <<>> THEN p ELSE Front(p)

localPath(key, prefix) == Join(LocalDir, relativePath(key, prefix))

\* variant: the first byte of the key is tested instead of the last
IsDirMarkerFirstByte(key) == key[1] = Slash

\* the key ends with "/" (only evaluated on non-empty keys)
IsDirMarker(key) == key[Len(key)] = Slash

\* ------------------------------------------------------------ filesystem
DirEntry == [kind |-> "dir", data |-> <<>>]
FileEntry(d) == [kind |-> "file", data |-> d]

Ext(f, p, v) == [q \in (DOMAIN f) \cup {p} |-> IF q = p THEN v ELSE f[q]]

EmptyFs == [p \in {<<>>} |-> DirEntry]

\* /out exists and holds a file "a" left by an earlier run
StaleFs ==
    Ext(Ext(EmptyFs, LocalDir, DirEntry), Append(LocalDir, <<"a">>), FileEntry(StaleData))

InitialFsSet == {EmptyFs, StaleFs}

RECURSIVE MkdirAll(_, _)
MkdirAll(f, p) ==
    IF p \in DOMAIN f
    THEN [ok |-> f[p].kind = "dir", fs |-> f]
    ELSE LET r == MkdirAll(f, Front(p))
         IN  IF r.ok THEN [ok |-> TRUE, fs |-> Ext(r.fs, p, DirEntry)] ELSE r

\* os.Create: O_CREATE|O_TRUNC
Create(f, p) ==
    IF p \in DOMAIN f
    THEN IF f[p].kind = "dir" THEN [ok |-> FALSE, fs |-> f]
         ELSE [ok |-> TRUE, fs |-> Ext(f, p, FileEntry(<<>>))]
    ELSE IF Front(p) \in DOMAIN f /\ f[Front(p)].kind = "dir"
         THEN [ok |-> TRUE, fs |-> Ext(f, p, FileEntry(<<>>))]
         ELSE [ok |-> FALSE, fs |-> f]

\* bytes written from offset 0 through a handle opened by Create
WriteAt(old, d) == d \o SubSeq(old, Len(d) + 1, Len(old))


\* --------------------------------------------------------- progress, result
NoError == "nil"

\* variant: the byte count is set before the outcome is known
MakeProgressBytesFirst(i, obj, err) ==
    [idx |-> i,
     Key |-> obj.Key,
     TotalBytes |-> obj.Size,
     BytesDownloaded |-> obj.Size,
     Error |-> err,
     Completed |-> (err = NoError)]

\* providers.DownloadProgress as built by downloadWorker; err is the error
\* returned by downloadObject (NoError for nil)
MakeProgress(i, obj, err) ==
    [idx |-> i,
     Key |-> obj.Key,
     TotalBytes |-> obj.Size,
     BytesDownloaded |-> IF err = NoError THEN obj.Size ELSE 0,
     Error |-> err,
     Completed |-> (err = NoError)]

ZeroResult ==
    [TotalFiles |-> 0, SuccessfulFiles |-> 0, FailedFiles |-> 0,
     TotalBytes |-> 0, Errors |-> <<>>]

\* variant: the newest error is put in front of the earlier ones
AddProgressNewestErrorFirst(res, progress) ==
    [TotalFiles |-> res.TotalFiles + 1,
     TotalBytes |-> res.TotalBytes + progress.TotalBytes,
     FailedFiles |-> IF progress.Error # NoError THEN res.FailedFiles + 1
                     ELSE res.FailedFiles,
     Errors |-> IF progress.Error # NoError
                THEN <<[kind |-> progress.Error, idx |-> progress.idx]>> \o res.Errors
                ELSE res.Errors,
     SuccessfulFiles |-> IF progress.Error # NoError THEN res.SuccessfulFiles
                         ELSE res.SuccessfulFiles + 1]

\* variant: a failed event leaves the loop iteration before it is counted
AddProgressUncountedFailure(res, progress) ==
    IF progress.Error # NoError
    THEN [res EXCEPT !.Errors = Append(@, [kind |-> progress.Error, idx |-> progress.idx])]
    ELSE [res EXCEPT !.TotalFiles = @ + 1,
                     !.TotalBytes = @ + progress.TotalBytes,
                     !.SuccessfulFiles = @ + 1]

\* one iteration of the aggregation loop on the result
AddProgress(res, progress) ==
    [TotalFiles |-> res.TotalFiles + 1,
     TotalBytes |-> res.TotalBytes + progress.TotalBytes,
     FailedFiles |-> IF progress.Error # NoError THEN res.FailedFiles + 1
                     ELSE res.FailedFiles,
     Errors |-> IF progress.Error # NoError
                THEN Append(res.Errors, [kind |-> progress.Error, idx |-> progress.idx])
                ELSE res.Errors,
     SuccessfulFiles |-> IF progress.Error # NoError THEN res.SuccessfulFiles
                         ELSE res.SuccessfulFiles + 1]

\* variant: a summary error is returned when failures were recorded
FinalErrorPartial(res) == IF res.Errors # <<>> THEN "partial" ELSE NoError

\* the error DownloadFolder returns next to the result after aggregation
FinalError(res) == NoError

\* what DownloadFolder returns: a nil *DownloadResult or a result, and an error
Returned(isNil, res, err) == [nilResult |-> isNil, result |-> res, err |-> err]

\* ------------------------------------------------------------- runClone
\* runClone has not returned
NotRun == [done |-> FALSE, err |-> NoError, out |-> <<>>]

\* the summary lines runClone prints for a result
Summary(res) ==
    [files |-> res.TotalFiles, successful |-> res.SuccessfulFiles,
     failed |-> res.FailedFiles, bytes |-> res.TotalBytes]

\* variant: the per-object errors are printed and the command succeeds
RunCloneErrorsIgnored(r) ==
    IF r.err # NoError
    THEN [done |-> TRUE, err |-> "download failed", out |-> <<>>]
    ELSE [done |-> TRUE,
          err |-> NoError,
          out |-> <<Summary(r.result)>> \o r.result.Errors]

\* what runClone prints and returns once DownloadFolder returned r
RunClone(r) ==
    IF r.err # NoError
    THEN [done |-> TRUE, err |-> "download failed", out |-> <<>>]
    ELSE [done |-> TRUE,
          err |-> IF Len(r.result.Errors) > 0 THEN "completed with errors"
                  ELSE NoError,
          out |-> <<Summary(r.result)>> \o r.result.Errors]

\* ------------------------------------------------------------------ state
VARIABLES
    prefix,         \* prefix argument of DownloadFolder
    objects,        \* what Provider.ListObjects returns when it succeeds
    configured,     \* DownloaderConfig.Concurrency handed to NewDownloader
    handles,        \* per worker: the remote stream and local file it has open
    cancel,         \* <<>>, or <<k>> once ctx was cancelled after k jobs were taken
    cmd,            \* what runClone printed and returned, once it has
    concurrency,    \* d.concurrency
    fs,             \* local filesystem: cleaned path -> entry
    pc,             \* position of DownloadFolder
    jobs,           \* jobs channel buffer (indices into objects)
    jobsClosed,
    sent,           \* number of objects the producer goroutine has sent
    results,        \* results channel buffer
    resultsClosed,
    wg,             \* sync.WaitGroup counter
    wpc,            \* position of each worker goroutine
    wobj,           \* index of the object a worker is processing (0: none)
    werr,           \* error downloadObject is about to return
    result,         \* the DownloadResult being accumulated
    ret,            \* values returned by DownloadFolder
    taken,          \* history: per object, number of receives from jobs
    emitted,        \* history: per object, number of events sent
    dlCalls,        \* history: per object, number of Provider.DownloadObject calls
    cbLog,          \* history: events handed to the progress callback
    fs0,            \* history: the filesystem when DownloadFolder was called
    fatal,          \* history: the call of DownloadFolder itself that failed
    pm,             \* a call of the path mapping on its own: arguments, result
    run,            \* which call of DownloadFolder with these inputs this is
    fs1,            \* history: the filesystem the previous call left
    cbActive        \* number of progress callback invocations in progress

vars == <<prefix, objects, concurrency, fs, pc, jobs, jobsClosed, sent, results,
          resultsClosed, wg, wpc, wobj, werr, result, ret, taken, emitted,
          dlCalls, cbLog, fs0, fatal, pm, run, fs1, cbActive,
          configured, handles, cancel, cmd>>

\* what no step of a DownloadFolder call changes
inputs == <<prefix, objects, configured, concurrency, pm, run, fs1, cancel, cmd>>
chans == <<jobs, jobsClosed, sent, results, resultsClosed, wg>>
workers == <<wpc, wobj, werr>>
history == <<taken, emitted, dlCalls, cbLog, fs0, fatal>>

\* no call of the path mapping on its own
NoMapping == [key |-> <<>>, prefix |-> <<>>, out |-> <<>>, done |-> FALSE]

N == Len(objects)
Workers == DOMAIN wpc
Cancelled == cancel # <<>>

\* configured values for which NewDownloader is also exercised: zero and a
\* negative value besides the positive ones
ConfiguredPool == (-1)..MaxConcurrency

\* the state after NewDownloader was given the concurrency option c, the
\* provider's listing being one of listings
InitOn(c, listings) ==
    /\ prefix \in PrefixPool
    /\ objects \in listings
    /\ configured = c
    /\ concurrency = NewDownloaderConcurrency(c)
    /\ fs \in InitialFsSet
    /\ pc = "list"
    /\ jobs = <<>>
    /\ jobsClosed = FALSE
    /\ sent = 0
    /\ results = <<>>
    /\ resultsClosed = FALSE
    /\ wg = 0
    /\ wpc = <<>>
    /\ wobj = <<>>
    /\ werr = <<>>
    /\ result = ZeroResult
    /\ ret = Returned(TRUE, ZeroResult, NoError)
    /\ taken = [i \in 1..N |-> 0]
    /\ emitted = [i \in 1..N |-> 0]
    /\ dlCalls = [i \in 1..N |-> 0]
    /\ cbLog = <<>>
    /\ fs0 = fs
    /\ fatal = "none"
    /\ pm = NoMapping
    /\ run = 1
    /\ fs1 = fs
    /\ cbActive = 0
    /\ handles = [w \in 1..concurrency |-> {}]
    /\ cancel = <<>>
    /\ cmd = NotRun

InitWith(c) == InitOn(c, ListingSet)

Init == \E c \in 1..MaxConcurrency : InitWith(c)

\* ------------------------------------------------------- DownloadFolder
\* variant: the error of ListObjects is not acted upon
ListFailIgnored ==
    /\ pc = "list"
    /\ pc' = "mkroot"
    /\ fatal' = "list"
    /\ UNCHANGED <<inputs, cbActive, handles, fs, chans, workers, result, ret, taken, emitted,
                   dlCalls, cbLog, fs0>>

ListFail ==
    /\ pc = "list"
    /\ pc' = "returned"
    /\ ret' = Returned(TRUE, ZeroResult, "list")
    /\ fatal' = "list"
    /\ UNCHANGED <<inputs, cbActive, handles, fs, chans, workers, result, taken, emitted, dlCalls,
                   cbLog, fs0>>

\* variant: the empty listing is not short-circuited
ListEmptyNoShortCircuit ==
    /\ pc = "list"
    /\ N = 0
    /\ pc' = "mkroot"
    /\ UNCHANGED <<inputs, cbActive, handles, fs, chans, workers, result, ret, history>>

ListEmpty ==
    /\ pc = "list"
    /\ N = 0
    /\ pc' = "returned"
    /\ ret' = Returned(FALSE, ZeroResult, NoError)
    /\ UNCHANGED <<inputs, cbActive, handles, fs, chans, workers, result, history>>

ListOk ==
    /\ pc = "list"
    /\ N # 0
    /\ pc' = "mkroot"
    /\ UNCHANGED <<inputs, cbActive, handles, fs, chans, workers, result, ret, history>>

\* variant: the error of os.MkdirAll(localDir) is not acted upon
MkRootIgnoreError ==
    /\ pc = "mkroot"
    /\ \E denied \in BOOLEAN :
         LET r == MkdirAll(fs, LocalDir)
         IN  /\ fs' = IF r.ok /\ ~denied THEN r.fs ELSE fs
             /\ fatal' = IF r.ok /\ ~denied THEN fatal ELSE "mkroot"
    /\ pc' = "start"
    /\ UNCHANGED <<inputs, cbActive, handles, chans, workers, result, ret, taken, emitted, dlCalls,
                   cbLog, fs0>>

\* os.MkdirAll(localDir): denied says the operating system refuses it
MkRoot ==
    /\ pc = "mkroot"
    /\ \E denied \in BOOLEAN :
         LET r == MkdirAll(fs, LocalDir)
         IN  IF r.ok /\ ~denied
             THEN /\ fs' = r.fs
                  /\ pc' = "start"
                  /\ ret' = ret
                  /\ fatal' = fatal
             ELSE /\ fs' = fs
                  /\ pc' = "returned"
                  /\ ret' = Returned(TRUE, ZeroResult, "mkroot")
                  /\ fatal' = "mkroot"
    /\ UNCHANGED <<inputs, cbActive, handles, chans, workers, result, taken, emitted, dlCalls,
                   cbLog, fs0>>

\* make the channels, start the workers, the producer and the closer
Start ==
    /\ pc = "start"
    /\ pc' = "aggregate"
    /\ wg' = concurrency
    /\ wpc' = [w \in 1..concurrency |-> "recv"]
    /\ wobj' = [w \in 1..concurrency |-> 0]
    /\ werr' = [w \in 1..concurrency |-> NoError]
    /\ UNCHANGED <<inputs, cbActive, handles, fs, jobs, jobsClosed, sent, results, resultsClosed,
                   result, ret, history>>

\* jobs := make(chan providers.Object, len(objects))
JobsCap == N

\* variant: the results channel holds one event less than there are objects
ResultsCapOneShort == N - 1

\* results := make(chan providers.DownloadProgress, len(objects))
ResultsCap == N

\* variant: the producer walks the listing from its end
NextJobReversed(k) == N - k

\* "for _, obj := range objects": the object sent after k objects were sent
NextJob(k) == k + 1

\* producer goroutine: jobs <- obj
SendJob ==
    /\ pc = "aggregate"
    /\ sent < N
    /\ Len(jobs) < JobsCap
    /\ jobs' = Append(jobs, NextJob(sent))
    /\ sent' = sent + 1
    /\ UNCHANGED <<inputs, cbActive, handles, fs, pc, jobsClosed, results, resultsClosed, wg,
                   workers, result, ret, history>>

\* producer goroutine: deferred close(jobs)
CloseJobs ==
    /\ pc = "aggregate"
    /\ sent = N
    /\ ~jobsClosed
    /\ jobsClosed' = TRUE
    /\ UNCHANGED <<inputs, cbActive, handles, fs, pc, jobs, sent, results, resultsClosed, wg,
                   workers, result, ret, history>>

\* variant: the closer goroutine closes results without wg.Wait()
CloseResultsWithoutWait ==
    /\ pc = "aggregate"
    /\ ~resultsClosed
    /\ resultsClosed' = TRUE
    /\ UNCHANGED <<inputs, cbActive, handles, fs, pc, jobs, jobsClosed, sent, results, wg,
                   workers, result, ret, history>>

\* closer goroutine: wg.Wait(); close(results)
CloseResults ==
    /\ pc = "aggregate"
    /\ wg = 0
    /\ ~resultsClosed
    /\ resultsClosed' = TRUE
    /\ UNCHANGED <<inputs, cbActive, handles, fs, pc, jobs, jobsClosed, sent, results, wg,
                   workers, result, ret, history>>

\* variant: the callback is started without waiting for it ("go callback")
AggregateWithoutWaiting ==
    /\ pc = "aggregate"
    /\ results # <<>>
    /\ results' = Tail(results)
    /\ result' = AddProgress(result, Head(results))
    /\ cbLog' = Append(cbLog, Head(results))
    /\ cbActive' = cbActive + 1
    /\ UNCHANGED <<inputs, handles, fs, pc, jobs, jobsClosed, sent, resultsClosed, wg,
                   workers, ret, taken, emitted, dlCalls, fs0, fatal>>

\* one iteration of "for progress := range results", up to the call of the
\* progress callback
Aggregate ==
    /\ pc = "aggregate"
    /\ cbActive = 0
    /\ results # <<>>
    /\ results' = Tail(results)
    /\ result' = AddProgress(result, Head(results))
    /\ cbLog' = Append(cbLog, Head(results))
    /\ cbActive' = cbActive + 1
    /\ UNCHANGED <<inputs, handles, fs, pc, jobs, jobsClosed, sent, resultsClosed, wg,
                   workers, ret, taken, emitted, dlCalls, fs0, fatal>>

\* progressCallback(progress) returns to the aggregation loop
CallbackReturn ==
    /\ pc = "aggregate"
    /\ cbActive > 0
    /\ cbActive' = cbActive - 1
    /\ UNCHANGED <<inputs, handles, fs, pc, chans, workers, result, ret, history>>

\* the range loop ends on the closed, drained channel
Return ==
    /\ pc = "aggregate"
    /\ cbActive = 0
    /\ results = <<>>
    /\ resultsClosed
    /\ pc' = "returned"
    /\ ret' = Returned(FALSE, result, FinalError(result))
    /\ UNCHANGED <<inputs, cbActive, handles, fs, chans, workers, result, history>>

\* ------------------------------------------------------- downloadWorker
\* variant: the received job stays in the buffer
RecvPeek(ch) == ch

\* the buffer of a channel after a receive
Recv(ch) == Tail(ch)

\* variant: a receive yields the value sent last
ReceivedNewest(ch) == ch[Len(ch)]

\* the value a receive yields: the one that was sent first
Received(ch) == Head(ch)

\* variant: the worker returns after a failed download
AfterEmitReturnOnError(err) == IF err # NoError THEN "done" ELSE "recv"

\* where the worker goes after sending the progress of a job whose download
\* returned err: the range loop takes the next job whatever the outcome
\* ("done" would be a return, which runs the deferred wg.Done())
AfterEmit(err) == "recv"

Obj(w) == objects[wobj[w]]
Path(w) == localPath(Obj(w).Key, prefix)

\* "for obj := range jobs" receives a job; downloadObject computes the local
\* path and tests the last byte of the key, which panics on the empty key
Take(w) ==
    /\ pc = "aggregate"
    /\ wpc[w] = "recv"
    /\ jobs # <<>>
    /\ jobs' = Recv(jobs)
    /\ taken' = [taken EXCEPT ![Received(jobs)] = @ + 1]
    /\ wobj' = [wobj EXCEPT ![w] = Received(jobs)]
    /\ IF objects[Received(jobs)].Key = <<>>
       THEN /\ pc' = "panicked"
            /\ wpc' = wpc
       ELSE /\ pc' = pc
            /\ wpc' = [wpc EXCEPT ![w] = "mkdir"]
    /\ UNCHANGED <<inputs, cbActive, handles, fs, jobsClosed, sent, results, resultsClosed, wg,
                   werr, result, ret, emitted, dlCalls, cbLog, fs0, fatal>>

\* variant: the worker also leaves its loop once ctx is cancelled
LoopEndsOnCancel(ch, closed, c) == c \/ (ch = <<>> /\ closed)

\* "for obj := range jobs" ends on the closed, drained channel only; the
\* worker does not consult ctx (c: whether it is cancelled)
LoopEnds(ch, closed, c) == ch = <<>> /\ closed

\* the range loop ends; deferred wg.Done()
Exit(w) ==
    /\ pc = "aggregate"
    /\ wpc[w] = "recv"
    /\ LoopEnds(jobs, jobsClosed, Cancelled)
    /\ wpc' = [wpc EXCEPT ![w] = "done"]
    /\ wg' = wg - 1
    /\ UNCHANGED <<inputs, cbActive, handles, fs, pc, jobs, jobsClosed, sent, results,
                   resultsClosed, wobj, werr, result, ret, history>>

\* directory marker: return os.MkdirAll(localPath)
MkdirMarker(w) ==
    /\ pc = "aggregate"
    /\ wpc[w] = "mkdir"
    /\ IsDirMarker(Obj(w).Key)
    /\ \E denied \in BOOLEAN :
         LET r == MkdirAll(fs, Path(w))
         IN  IF r.ok /\ ~denied
             THEN /\ fs' = r.fs
                  /\ werr' = [werr EXCEPT ![w] = NoError]
             ELSE /\ fs' = fs
                  /\ werr' = [werr EXCEPT ![w] = "markerdir"]
    /\ wpc' = [wpc EXCEPT ![w] = "emit"]
    /\ UNCHANGED <<inputs, cbActive, handles, pc, chans, wobj, result, ret, history>>

\* os.MkdirAll(filepath.Dir(localPath))
MkdirParent(w) ==
    /\ pc = "aggregate"
    /\ wpc[w] = "mkdir"
    /\ ~IsDirMarker(Obj(w).Key)
    /\ \E denied \in BOOLEAN :
         LET r == MkdirAll(fs, Dir(Path(w)))
         IN  IF r.ok /\ ~denied
             THEN /\ fs' = r.fs
                  /\ werr' = werr
                  /\ wpc' = [wpc EXCEPT ![w] = "fetch"]
             ELSE /\ fs' = fs
                  /\ werr' = [werr EXCEPT ![w] = "mkdir"]
                  /\ wpc' = [wpc EXCEPT ![w] = "emit"]
    /\ UNCHANGED <<inputs, cbActive, handles, pc, chans, wobj, result, ret, history>>

\* variant: a failed provider call is made a second time
AfterFetchErrorRetryOnce(calls) == IF calls < 2 THEN "fetch" ELSE "emit"

\* "if err != nil { return err }" after the provider call, calls being the
\* number of calls made for the object so far: downloadObject returns
AfterFetchError(calls) == "emit"

\* d.provider.DownloadObject(ctx, obj.Key)
Fetch(w) ==
    /\ pc = "aggregate"
    /\ wpc[w] = "fetch"
    /\ dlCalls' = [dlCalls EXCEPT ![wobj[w]] = @ + 1]
    /\ \E ok \in BOOLEAN :
         IF ok
         THEN /\ werr' = werr
              /\ wpc' = [wpc EXCEPT ![w] = "create"]
              /\ handles' = [handles EXCEPT ![w] = @ \cup {"reader"}]
         ELSE /\ werr' = [werr EXCEPT ![w] = "fetch"]
              /\ wpc' = [wpc EXCEPT ![w] = AfterFetchError(dlCalls'[wobj[w]])]
              /\ handles' = handles
    /\ UNCHANGED <<inputs, cbActive, fs, pc, chans, wobj, result, ret, taken, emitted,
                   cbLog, fs0, fatal>>

\* variant: only the Close of the local file is deferred
DeferredFileOnly(h) == h \ {"reader"}

\* the handles among h whose Close was deferred: "defer reader.Close()" and
\* "defer file.Close()" follow each successful open
Deferred(h) == h

\* the handles left open when downloadObject returns holding h
AtReturn(h) == h \ Deferred(h)

\* os.Create(localPath)
CreateFile(w) ==
    /\ pc = "aggregate"
    /\ wpc[w] = "create"
    /\ \E denied \in BOOLEAN :
         LET r == Create(fs, Path(w))
         IN  IF r.ok /\ ~denied
             THEN /\ fs' = r.fs
                  /\ werr' = werr
                  /\ wpc' = [wpc EXCEPT ![w] = "copy"]
                  /\ handles' = [handles EXCEPT ![w] = @ \cup {"file"}]
             ELSE /\ fs' = fs
                  /\ werr' = [werr EXCEPT ![w] = "create"]
                  /\ wpc' = [wpc EXCEPT ![w] = "emit"]
                  /\ handles' = [handles EXCEPT ![w] = AtReturn(@)]
    /\ UNCHANGED <<inputs, cbActive, pc, chans, wobj, result, ret, history>>

\* io.Copy(file, reader): all bytes written, or an error after n of them
CopyData(w) ==
    /\ pc = "aggregate"
    /\ wpc[w] = "copy"
    /\ LET d == RemoteData(Obj(w))
           old == fs[Path(w)].data
       IN  \/ /\ fs' = [fs EXCEPT ![Path(w)].data = WriteAt(old, d)]
              /\ werr' = [werr EXCEPT ![w] = NoError]
           \/ \E n \in 0..(Len(d) - 1) :
                /\ fs' = [fs EXCEPT ![Path(w)].data = WriteAt(old, SubSeq(d, 1, n))]
                /\ werr' = [werr EXCEPT ![w] = "copy"]
    /\ wpc' = [wpc EXCEPT ![w] = "emit"]
    /\ handles' = [handles EXCEPT ![w] = AtReturn(@)]
    /\ UNCHANGED <<inputs, cbActive, pc, chans, wobj, result, ret, history>>

\* results <- progress
Emit(w) ==
    /\ pc = "aggregate"
    /\ wpc[w] = "emit"
    /\ Len(results) < ResultsCap
    /\ results' = Append(results, MakeProgress(wobj[w], Obj(w), werr[w]))
    /\ emitted' = [emitted EXCEPT ![wobj[w]] = @ + 1]
    /\ wpc' = [wpc EXCEPT ![w] = AfterEmit(werr[w])]
    /\ wg' = IF AfterEmit(werr[w]) = "done" THEN wg - 1 ELSE wg
    /\ wobj' = [wobj EXCEPT ![w] = 0]
    /\ werr' = [werr EXCEPT ![w] = NoError]
    /\ UNCHANGED <<inputs, cbActive, handles, fs, pc, jobs, jobsClosed, sent, resultsClosed,
                   result, ret, taken, dlCalls, cbLog, fs0, fatal>>

Worker(w) ==
    \/ Take(w)
    \/ Exit(w)
    \/ MkdirMarker(w)
    \/ MkdirParent(w)
    \/ Fetch(w)
    \/ CreateFile(w)
    \/ CopyData(w)
    \/ Emit(w)

Next ==
    \/ ListFail
    \/ ListEmpty
    \/ ListOk
    \/ MkRoot
    \/ Start
    \/ SendJob
    \/ CloseJobs
    \/ CloseResults
    \/ Aggregate
    \/ CallbackReturn
    \/ Return
    \/ \E w \in Workers : Worker(w)

Spec == Init /\ [][Next]_vars

\* ------------------------------------------------- a second, identical call
\* the Go scheduler eventually runs every goroutine that can take a step: the
\* calling goroutine (listing, setup, aggregation loop, callback, return), the
\* producer goroutine, the closer goroutine and each worker goroutine
FairSpec ==
    /\ Spec
    /\ WF_vars(ListFail \/ ListEmpty \/ ListOk \/ MkRoot \/ Start)
    /\ WF_vars(Aggregate \/ CallbackReturn \/ Return)
    /\ WF_vars(SendJob \/ CloseJobs)
    /\ WF_vars(CloseResults)
    /\ \A w \in 1..MaxConcurrency : WF_vars(w \in Workers /\ Worker(w))

\* DownloadFolder on a Downloader built from any configured option
InitAnyOption == \E c \in ConfiguredPool : InitWith(c)

SpecAnyOption == InitAnyOption /\ [][Next]_vars

\* the caller cancels ctx while the workers run; DownloadFolder and the
\* workers only hand ctx on to the provider, whose calls may then fail
Cancel ==
    /\ pc = "aggregate"
    /\ ~Cancelled
    /\ cancel' = <<Cardinality({i \in 1..N : taken[i] > 0})>>
    /\ UNCHANGED <<prefix, objects, configured, concurrency, pm, run, fs1, cbActive,
                   handles, fs, pc, chans, workers, result, ret, history, cmd>>

NextCancel == Next \/ Cancel

SpecCancel == Init /\ [][NextCancel]_vars

\* DownloadFolder on a bucket that may also hold a key with a ".." segment
InitTraversal ==
    \E c \in 1..MaxConcurrency : InitOn(c, ListingSet \cup TraversalListings)

SpecTraversal == InitTraversal /\ [][Next]_vars

\* runClone after its call of DownloadFolder: it prints and returns
CloneReturn ==
    /\ pc = "returned"
    /\ ~cmd.done
    /\ cmd' = RunClone(ret)
    /\ UNCHANGED <<prefix, objects, configured, concurrency, pm, run, fs1, cbActive,
                   handles, fs, pc, chans, workers, result, ret, history, cancel>>

NextClone == Next \/ CloneReturn

SpecClone == Init /\ [][NextClone]_vars

\* the caller invokes DownloadFolder again with the same arguments after a
\* call in which every object succeeded; the provider and the files are as
\* the first call left them
Restart ==
    /\ pc = "returned"
    /\ run = 1
    /\ ~ret.nilResult
    /\ N >= 1
    /\ ret.result.FailedFiles = 0
    /\ run' = 2
    /\ fs1' = fs
    /\ fs0' = fs
    /\ pc' = "list"
    /\ jobs' = <<>>
    /\ jobsClosed' = FALSE
    /\ sent' = 0
    /\ results' = <<>>
    /\ resultsClosed' = FALSE
    /\ wg' = 0
    /\ wpc' = <<>>
    /\ wobj' = <<>>
    /\ werr' = <<>>
    /\ result' = ZeroResult
    /\ ret' = Returned(TRUE, ZeroResult, NoError)
    /\ taken' = [i \in 1..N |-> 0]
    /\ emitted' = [i \in 1..N |-> 0]
    /\ dlCalls' = [i \in 1..N |-> 0]
    /\ cbLog' = <<>>
    /\ fatal' = "none"
    /\ UNCHANGED <<prefix, objects, configured, concurrency, pm, fs, cbActive,
                   handles, cancel, cmd>>

NextTwice == Next \/ Restart

SpecTwice == Init /\ [][NextTwice]_vars

\* ------------------------------------------- the path mapping on its own
Chars == {"d", "a", Slash}

Strings(n) == UNION {[1..k -> Chars] : k \in 0..n}

ExampleKey ==
    <<"p", "h", "o", "t", "o", "s", Slash, "2", "0", "2", "0", Slash,
      "a", ".", "j", "p", "g">>
ExamplePrefix == <<"p", "h", "o", "t", "o", "s", Slash>>
ExampleRelative == <<"2", "0", "2", "0", Slash, "a", ".", "j", "p", "g">>

MappingInputs ==
    (Strings(MaxKeyLen) \X Strings(MaxPrefixLen)) \cup {<<ExampleKey, ExamplePrefix>>}

\* no DownloadFolder call is in progress; one key and one prefix are chosen
InitPath ==
    /\ \E a \in MappingInputs :
         pm = [key |-> a[1], prefix |-> a[2], out |-> <<>>, done |-> FALSE]
    /\ prefix = <<>>
    /\ objects = <<>>
    /\ configured = 0
    /\ concurrency = NewDownloaderConcurrency(configured)
    /\ fs = EmptyFs
    /\ pc = "mapping"
    /\ jobs = <<>>
    /\ jobsClosed = FALSE
    /\ sent = 0
    /\ results = <<>>
    /\ resultsClosed = FALSE
    /\ wg = 0
    /\ wpc = <<>>
    /\ wobj = <<>>
    /\ werr = <<>>
    /\ result = ZeroResult
    /\ ret = Returned(TRUE, ZeroResult, NoError)
    /\ taken = <<>>
    /\ emitted = <<>>
    /\ dlCalls = <<>>
    /\ cbLog = <<>>
    /\ fs0 = fs
    /\ fatal = "none"
    /\ run = 1
    /\ fs1 = fs
    /\ cbActive = 0
    /\ handles = [w \in 1..concurrency |-> {}]
    /\ cancel = <<>>
    /\ cmd = NotRun

\* the first lines of downloadObject applied to the chosen key and prefix
MapPath ==
    /\ pc = "mapping"
    /\ ~pm.done
    /\ pm' = [pm EXCEPT !.out = relativePath(pm.key, pm.prefix), !.done = TRUE]
    /\ UNCHANGED <<prefix, objects, configured, concurrency, run, fs1, cbActive, fs, pc,
                   chans, handles, cancel, cmd,
                   workers, result, ret, history>>

NextPath == MapPath

SpecPath == InitPath /\ [][NextPath]_vars

\* ================================================================ claims
ReturnedResult == pc = "returned" /\ ~ret.nilResult

\* the events the aggregation loop consumed for object i
EventsOf(i) == {k \in DOMAIN cbLog : cbLog[k].idx = i}

RECURSIVE SumCompletedSizes(_)
SumCompletedSizes(log) ==
    IF log = <<>> THEN 0
    ELSE (IF Head(log).Completed THEN objects[Head(log).idx].Size ELSE 0)
         + SumCompletedSizes(Tail(log))

\* C1: for a listing of N >= 1 objects, the result DownloadFolder returns has
\* TotalFiles = N and SuccessfulFiles + FailedFiles = N, whatever the number of
\* workers, their interleaving and the per-object outcomes.
C1_ResultCounts ==
    (ReturnedResult /\ N >= 1) =>
        /\ ret.result.TotalFiles = N
        /\ ret.result.SuccessfulFiles + ret.result.FailedFiles = N

C1_Witness ==
    /\ ReturnedResult
    /\ N = 2
    /\ concurrency = 2
    /\ ret.result.SuccessfulFiles = 1
    /\ ret.result.FailedFiles = 1

C3_TotalBytesOfCompleted ==
    ReturnedResult => ret.result.TotalBytes = SumCompletedSizes(cbLog)

\* C4: every listed object is received from the jobs channel by at most one
\* worker and has at most one event sent for it at any time, and by exactly
\* one worker with exactly one event once DownloadFolder has returned a
\* result for a non-empty listing.
C4_ExactlyOnce ==
    /\ \A i \in 1..N :
          /\ taken[i] <= 1
          /\ emitted[i] <= taken[i]
          /\ Cardinality({w \in Workers : wobj[w] = i}) <= 1
          /\ Cardinality(EventsOf(i)) <= emitted[i]
    /\ (ReturnedResult /\ N >= 1) =>
          \A i \in 1..N :
             /\ taken[i] = 1
             /\ emitted[i] = 1
             /\ Cardinality(EventsOf(i)) = 1

\* two workers hold the two objects at once, each about to report its own
C4_Witness ==
    /\ N = 2
    /\ concurrency = 2
    /\ pc = "aggregate"
    /\ wobj[1] = 2
    /\ wobj[2] = 1
    /\ wpc[1] = "emit"
    /\ wpc[2] = "emit"
    /\ taken[1] = 1
    /\ taken[2] = 1

\* C5: a per-object failure does not abort the run: when the returned result
\* records a failure, every listed object has still been taken by a worker
\* and its own outcome (success or error) consumed by the aggregation loop.
C5_FailureDoesNotAbort ==
    (ReturnedResult /\ ret.result.FailedFiles >= 1) =>
        /\ \A i \in 1..N : taken[i] >= 1 /\ EventsOf(i) # {}
        /\ ret.result.SuccessfulFiles =
              Cardinality({k \in DOMAIN cbLog : cbLog[k].Error = NoError})
        /\ ret.result.FailedFiles =
              Cardinality({k \in DOMAIN cbLog : cbLog[k].Error # NoError})

\* a single worker fails on the first object and then completes the second
C5_Witness ==
    /\ ReturnedResult
    /\ concurrency = 1
    /\ N = 2
    /\ cbLog[1].idx = 1
    /\ cbLog[1].Error # NoError
    /\ cbLog[2].idx = 2
    /\ cbLog[2].Completed

NoSideEffects ==
    /\ fs = fs0
    /\ Workers = {}
    /\ \A i \in 1..N : dlCalls[i] = 0 /\ taken[i] = 0
    /\ cbLog = <<>>

\* C6: when Provider.ListObjects fails, DownloadFolder has returned a nil
\* result and a non-nil error, no directory was created, no worker started,
\* DownloadObject was never called and the callback never invoked.
C6_ListFailureIsFatal ==
    fatal = "list" =>
        /\ pc = "returned"
        /\ ret.nilResult
        /\ ret.err # NoError
        /\ NoSideEffects

C6_Witness == fatal = "list" /\ pc = "returned" /\ N >= 1

\* C7: when creating the destination directory fails for a non-empty listing,
\* DownloadFolder has returned a nil result and a non-nil error, no worker
\* started, DownloadObject was never called, nothing was written and the
\* callback never invoked.
C7_RootFailureIsFatal ==
    fatal = "mkroot" =>
        /\ N >= 1
        /\ pc = "returned"
        /\ ret.nilResult
        /\ ret.err # NoError
        /\ NoSideEffects

C7_Witness == fatal = "mkroot" /\ pc = "returned" /\ N >= 1

\* C8: when the listing succeeds and is empty, DownloadFolder returns the
\* zero result (all counters 0, no errors) with a nil error and leaves the
\* filesystem as it was: the destination is not created, no worker started,
\* the callback never invoked.
C8_EmptyListing ==
    (N = 0 /\ pc # "list" /\ fatal = "none") =>
        /\ pc = "returned"
        /\ ~ret.nilResult
        /\ ret.result = ZeroResult
        /\ ret.err = NoError
        /\ NoSideEffects

C8_Witness ==
    /\ N = 0
    /\ pc = "returned"
    /\ ~ret.nilResult
    /\ LocalDir \notin DOMAIN fs

\* the completed event k is about a file whose local content is the remote
\* object's bytes
FileHoldsRemote(k) ==
    LET p == localPath(cbLog[k].Key, prefix)
    IN  /\ p \in DOMAIN fs
        /\ fs[p].kind = "file"
        /\ fs[p].data = RemoteData(objects[cbLog[k].idx])

\* C9 (as stated): after DownloadFolder returns, the file at the mapped path
\* of every non-marker object whose event had completed = true holds exactly
\* the bytes of that remote object (the listing's keys being distinct).
C9_FilesHoldRemoteBytes ==
    ReturnedResult =>
        \A k \in DOMAIN cbLog :
            (cbLog[k].Completed /\ ~IsDirMarker(cbLog[k].Key)) => FileHoldsRemote(k)

\* C10 (as stated): the listing's keys being distinct, no two workers ever
\* have the same local file open for writing.
C10_NoTwoWritersOnOnePath ==
    \A w1, w2 \in Workers :
        (w1 # w2 /\ wpc[w1] = "copy" /\ wpc[w2] = "copy") => Path(w1) # Path(w2)

\* C11: with a single worker, objects are processed and their events reach
\* the callback in listing order: the k-th callback is about the k-th object,
\* queued events continue that order, and no object is received (so neither
\* fetched nor written) before the event of every earlier object was sent.
C11_SerialOrder ==
    concurrency = 1 =>
        /\ \A k \in DOMAIN cbLog : cbLog[k].idx = k
        /\ \A k \in DOMAIN results : results[k].idx = Len(cbLog) + k
        /\ \A i, j \in 1..N : (i < j /\ taken[j] > 0) => emitted[i] = 1
        /\ \A i, j \in 1..N : (i < j /\ dlCalls[j] > 0) => emitted[i] = 1

C11_Witness ==
    /\ concurrency = 1
    /\ ReturnedResult
    /\ N = 2
    /\ dlCalls[1] = 1
    /\ dlCalls[2] = 1
    /\ cbLog[1].idx = 1
    /\ cbLog[2].idx = 2
    /\ cbLog[2].Completed

\* a directory-marker key as the listing shows it
EndsWithSlash(key) == key # <<>> /\ key[Len(key)] = Slash

\* C12 (as stated): the event of a directory marker whose directory was
\* created has completed = true, no error, bytesDownloaded = 0 and
\* totalBytes = 0 whatever size the listing declares, and so adds 0 to the
\* result's TotalBytes.
C12_MarkerEventIsZero ==
    /\ \A k \in DOMAIN cbLog :
          (EndsWithSlash(cbLog[k].Key) /\ cbLog[k].Error = NoError) =>
              /\ cbLog[k].Completed
              /\ cbLog[k].BytesDownloaded = 0
              /\ cbLog[k].TotalBytes = 0
    /\ (ReturnedResult /\ \A i \in 1..N : EndsWithSlash(objects[i].Key)) =>
          ret.result.TotalBytes = 0

\* C13: for a directory marker the engine never calls Provider.DownloadObject
\* and no worker ever fetches, creates or writes a file for it; when its event
\* is successful, its mapped path is a directory after DownloadFolder returns.
C13_MarkerIsDirectoryOnly ==
    \A i \in 1..N :
        EndsWithSlash(objects[i].Key) =>
            /\ dlCalls[i] = 0
            /\ \A w \in Workers :
                  wobj[w] = i => wpc[w] \notin {"fetch", "create", "copy"}
            /\ (ReturnedResult /\ \E k \in EventsOf(i) : cbLog[k].Completed) =>
                  LET p == Join(LocalDir, relativePath(objects[i].Key, prefix))
                  IN  p \in DOMAIN fs /\ fs[p].kind = "dir"

C13_Witness ==
    /\ ReturnedResult
    /\ N = 2
    /\ EndsWithSlash(objects[1].Key)
    /\ ~EndsWithSlash(objects[2].Key)
    /\ \E k \in EventsOf(1) : cbLog[k].Completed
    /\ fs[Join(LocalDir, relativePath(objects[1].Key, prefix))].kind = "dir"
    /\ dlCalls[2] = 1

\* the Path Mapper as the specification words it
SpecPathMapper(key, pfx) ==
    IF Len(key) > Len(pfx)
    THEN LET rest == SubSeq(key, Len(pfx) + 1, Len(key))
         IN  IF Head(rest) = Slash THEN Tail(rest) ELSE rest
    ELSE key

\* C14 (as stated): for every key and prefix, the empty prefix included, the
\* relative path downloadObject computes is the specification's Path Mapper.
C14_Original == pm.done => pm.out = SpecPathMapper(pm.key, pm.prefix)

\* C14 (amended): when the prefix is non-empty and the key is longer than the
\* prefix, the relative path is the key without its first len(prefix)
\* characters and without exactly one leading "/" of the remainder if there is
\* one; when the prefix is empty or the key is no longer than the prefix, it
\* is the key unchanged (a leading "/" stays). relativePath of
\* "photos/2020/a.jpg" under "photos/" is "2020/a.jpg".
C14_RelativePath ==
    pm.done =>
        LET rest == SubSeq(pm.key, Len(pm.prefix) + 1, Len(pm.key))
        IN  /\ (pm.prefix # <<>> /\ Len(pm.key) > Len(pm.prefix)) =>
                  /\ SubSeq(pm.key, 1, Len(pm.prefix)) \o rest = pm.key
                  /\ Head(rest) = Slash => <<Slash>> \o pm.out = rest
                  /\ Head(rest) # Slash => pm.out = rest
            /\ (pm.prefix = <<>> \/ Len(pm.key) <= Len(pm.prefix)) =>
                  pm.out = pm.key
            /\ (pm.key = ExampleKey /\ pm.prefix = ExamplePrefix) =>
                  pm.out = ExampleRelative

C14_Witness ==
    /\ pm.done
    /\ pm.key = ExampleKey
    /\ pm.prefix = ExamplePrefix
    /\ pm.out = ExampleRelative

\* C15 (as stated): a second call of DownloadFolder with the same inputs
\* against the same remote objects, all objects succeeding in both calls,
\* leaves the local files with the bytes the first call left.
C15_SecondRunSameFiles ==
    (run = 2 /\ ReturnedResult /\ ret.result.FailedFiles = 0) => fs = fs1

\* the callback was invoked once for each event consumed so far, by the
\* aggregation loop alone and never while an earlier invocation is running
CallbackOncePerEvent ==
    /\ cbActive <= 1
    /\ Len(cbLog) = result.TotalFiles
    /\ \A i \in 1..N : Cardinality(EventsOf(i)) <= emitted[i]
    /\ (ReturnedResult /\ N >= 1) =>
          /\ cbActive = 0
          /\ \A i \in 1..N : Cardinality(EventsOf(i)) = 1

\* a step that invokes the callback takes the head of the results channel
\* and passes exactly that event
CallbackInSinkOrder ==
    cbLog' # cbLog =>
        /\ results # <<>>
        /\ cbLog' = Append(cbLog, Head(results))
        /\ results' = Tail(results)

\* C16: the progress callback is invoked exactly once per event (once per
\* listed object when DownloadFolder has returned), only by the aggregation
\* loop, never while another invocation is in progress whatever the number
\* of workers, and in the order the events leave the results channel.
C16_CallbackSerialInOrder ==
    [](CallbackOncePerEvent) /\ [][CallbackInSinkOrder]_vars

\* a second event is queued by another worker while the callback runs
C16_Witness ==
    /\ pc = "aggregate"
    /\ concurrency = 2
    /\ cbActive = 1
    /\ Len(cbLog) = 1
    /\ Len(results) = 1
    /\ results[1].idx # cbLog[1].idx

\* every worker has terminated, the results channel is closed and
\* DownloadFolder has returned its result
Finished ==
    /\ ReturnedResult
    /\ resultsClosed
    /\ \A w \in Workers : wpc[w] = "done"

\* C17: once the worker pool of a non-empty listing is started, under fair
\* scheduling every worker eventually terminates, the results channel is
\* eventually closed and DownloadFolder eventually returns.
C17_EventuallyReturns == (pc = "aggregate") ~> Finished

\* objects a worker has received and not yet reported
InTransfer == {i \in 1..N : taken[i] > emitted[i]}

\* C18: on a non-empty listing DownloadFolder starts exactly `concurrency`
\* workers, 5 of them when the configured value is <= 0, and the objects in
\* transfer at one instant are never more than that number of workers.
C18_WorkerCount ==
    pc \in {"aggregate", "returned", "panicked"} /\ N >= 1 /\ fatal = "none" =>
        /\ Cardinality(Workers) = IF configured <= 0 THEN 5 ELSE configured
        /\ Cardinality(InTransfer) <= Cardinality(Workers)

\* the option 0 gave five workers, two of which are transferring at once
C18_Witness ==
    /\ pc = "aggregate"
    /\ configured = 0
    /\ Cardinality(Workers) = 5
    /\ Cardinality(InTransfer) = 2

\* results is closed only when every worker has terminated, and
\* DownloadFolder has returned only when no worker holds an object
ClosedAfterWorkers ==
    /\ resultsClosed => \A w \in Workers : wpc[w] = "done" /\ wobj[w] = 0
    /\ (ReturnedResult /\ N >= 1) =>
          /\ resultsClosed
          /\ \A w \in Workers : wpc[w] = "done" /\ wobj[w] = 0
          /\ InTransfer = {}

\* a step that sends an event finds the results channel open
SendOnOpenSink ==
    Len(results') > Len(results) => ~resultsClosed /\ ~resultsClosed'

\* C19: the results channel is closed only after every worker has
\* terminated; no worker sends an event on the closed channel, and
\* DownloadFolder never returns while a worker holds an unreported object.
C19_SinkClosedAfterWorkers ==
    [](ClosedAfterWorkers) /\ [][SendOnOpenSink]_vars

\* the channel is closed behind two terminated workers while an event is
\* still queued for the aggregation loop
C19_Witness ==
    /\ pc = "aggregate"
    /\ concurrency = 2
    /\ resultsClosed
    /\ results # <<>>
    /\ \A i \in 1..N : emitted[i] = 1

\* C20: both channels have capacity N, the number of listed objects, and
\* never hold more than N items; the producer's send of a job and a worker's
\* send of an event are enabled whenever they are reached, whatever the
\* aggregation loop and the callback have done so far.
C20_QueuesNeverBlock ==
    pc = "aggregate" =>
        /\ JobsCap = N /\ ResultsCap = N
        /\ Len(jobs) <= N /\ Len(results) <= N
        /\ sent < N => ENABLED SendJob
        /\ \A w \in Workers : wpc[w] = "emit" => ENABLED Emit(w)

\* the last worker sends its event while every other event is still queued
\* and the aggregation loop has consumed nothing
C20_Witness ==
    /\ pc = "aggregate"
    /\ N = 2
    /\ Len(results) = 1
    /\ cbLog = <<>>
    /\ \E w \in Workers : wpc[w] = "emit"

\* the error of the event the aggregation loop consumed for object i
ErrorOf(i) == cbLog[CHOOSE k \in EventsOf(i) : TRUE].Error

AllEvents ==
    {results[k] : k \in DOMAIN results} \cup {cbLog[k] : k \in DOMAIN cbLog}

SuccessEvent(ev) ==
    /\ ev.Completed
    /\ ev.Error = NoError
    /\ ev.BytesDownloaded = ev.TotalBytes
    /\ ev.TotalBytes = objects[ev.idx].Size

FailureEvent(ev) ==
    /\ ev.Error # NoError
    /\ ~ev.Completed
    /\ ev.BytesDownloaded = 0

\* C22: every progress event is a success (completed, no error,
\* bytesDownloaded = totalBytes = the listed size) or a failure (error set,
\* not completed, bytesDownloaded = 0), and never both.
C22_SuccessOrFailure ==
    \A ev \in AllEvents :
        /\ SuccessEvent(ev) \/ FailureEvent(ev)
        /\ ~(SuccessEvent(ev) /\ FailureEvent(ev))

\* a failure of an object of non-zero size and a success were both consumed
C22_Witness ==
    /\ pc = "aggregate"
    /\ Len(cbLog) = 2
    /\ FailureEvent(cbLog[1])
    /\ objects[cbLog[1].idx].Size > 0
    /\ SuccessEvent(cbLog[2])

\* what a worker has open at each position of downloadObject
HandlesAt(p) ==
    CASE p = "create" -> {"reader"}
      [] p = "copy" -> {"reader", "file"}
      [] OTHER -> {}

\* C23: on every exit path of an object's download the remote stream and
\* the local file opened for it are closed before the worker sends the
\* object's event; a worker that is sending, waiting for a job or finished
\* holds no handle.
C23_HandlesClosed ==
    pc \in {"aggregate", "returned"} =>
        \A w \in Workers : handles[w] = HandlesAt(wpc[w])

\* both handles were opened and the copy failed: none is open at the send
C23_Witness ==
    /\ pc = "aggregate"
    /\ \E w \in Workers :
          /\ wpc[w] = "emit"
          /\ werr[w] = "copy"
          /\ handles[w] = {}

\* the path p is in f2 what it was in f1: absent in both or the same entry
SameAt(f1, f2, p) ==
    IF p \in DOMAIN f1 THEN p \in DOMAIN f2 /\ f2[p] = f1[p]
    ELSE p \notin DOMAIN f2

\* C24: when DownloadFolder has returned and Provider.DownloadObject failed
\* for an object, the failure is among the result's errors as that object's
\* failure and the path the object maps to is what it was before the call:
\* no file was created there and an earlier file has its previous content.
C24_FetchFailureLeavesFile ==
    ReturnedResult =>
        \A i \in 1..N :
            (EventsOf(i) # {} /\ ErrorOf(i) = "fetch") =>
                /\ \E k \in DOMAIN ret.result.Errors :
                      ret.result.Errors[k] = [kind |-> "fetch", idx |-> i]
                /\ SameAt(fs0, fs, localPath(objects[i].Key, prefix))

\* C25: cancelling ctx during a run makes the engine skip or drop no job:
\* every job sent is still queued or was taken, and when DownloadFolder has
\* returned every listed object was taken and has exactly one event, so
\* TotalFiles is the listing size.
C25_CancelDropsNoJob ==
    Cancelled =>
        /\ pc = "aggregate" =>
              sent = Len(jobs) + Cardinality({i \in 1..N : taken[i] > 0})
        /\ (ReturnedResult /\ N >= 1) =>
              /\ ret.result.TotalFiles = N
              /\ \A i \in 1..N : taken[i] = 1 /\ Cardinality(EventsOf(i)) = 1

\* ctx was cancelled before any job was taken, the provider honoured it on
\* both calls, and both objects are reported failed
C25_Witness ==
    /\ ReturnedResult
    /\ cancel = <<0>>
    /\ N = 2
    /\ ErrorOf(1) = "fetch"
    /\ ErrorOf(2) = "fetch"
    /\ ret.result.TotalFiles = 2

\* the objects taken so far are the first ones of the listing, and the
\* queued jobs are the next ones in listing order
TakenIsPrefix ==
    /\ \A i, j \in 1..N : (i < j /\ taken[j] > 0) => taken[i] > 0
    /\ \A k \in DOMAIN jobs :
          jobs[k] = Cardinality({i \in 1..N : taken[i] > 0}) + k

\* a step in which a worker receives a job gives it the first listed object
\* not taken yet, so one after every object any worker received before
TakeNextListed ==
    \A w \in Workers :
        (wobj[w] = 0 /\ wobj'[w] # 0) =>
            /\ \A i \in 1..N : taken[i] > 0 <=> i < wobj'[w]
            /\ taken'[wobj'[w]] = 1

\* C26: jobs leave the jobs channel in listing order for any number of
\* workers: each receive yields the first object not taken yet, so what one
\* worker processes is a subsequence of the listing and no object is
\* started before every earlier one was taken by some worker.
C26_JobsInListingOrder == [](TakenIsPrefix) /\ [][TakeNextListed]_vars

\* the second worker holds the first object while the first worker holds
\* the second one
C26_Witness ==
    /\ pc = "aggregate"
    /\ concurrency = 2
    /\ N = 2
    /\ wobj[2] = 1
    /\ wobj[1] = 2

\* the cleaned path p is destinationRoot or lies below it
UnderRoot(p) ==
    /\ Len(p) >= Len(LocalDir)
    /\ SubSeq(p, 1, Len(LocalDir)) = LocalDir

\* the paths that exist now and did not when DownloadFolder was called, or
\* whose entry changed since
Touched == {p \in DOMAIN fs : ~SameAt(fs0, fs, p)}

\* C27: every directory and file the engine creates or writes lies at or
\* below destinationRoot (destinationRoot's own missing ancestors aside),
\* for every listed key and prefix, keys with ".." segments included.
C27_StaysUnderRoot ==
    \A p \in Touched : UnderRoot(p) \/ p = SubSeq(LocalDir, 1, Len(p))

\* the errors of the failed events of log, in the order of log
RECURSIVE FailuresIn(_)
FailuresIn(log) ==
    IF log = <<>> THEN <<>>
    ELSE (IF Head(log).Error # NoError
          THEN <<[kind |-> Head(log).Error, idx |-> Head(log).idx]>>
          ELSE <<>>) \o FailuresIn(Tail(log))

\* C28: the Errors sequence of the result has exactly FailedFiles entries,
\* one per failed event and none for a successful one, in the order the
\* aggregation loop consumed those events; so has the returned result.
C28_ErrorsMatchFailures ==
    /\ pc = "aggregate" =>
          /\ Len(result.Errors) = result.FailedFiles
          /\ result.Errors = FailuresIn(cbLog)
    /\ ReturnedResult =>
          /\ Len(ret.result.Errors) = ret.result.FailedFiles
          /\ ret.result.Errors = FailuresIn(cbLog)

\* two workers: the second object's failure was consumed before the first's
C28_Witness ==
    /\ ReturnedResult
    /\ N = 2
    /\ ret.result.FailedFiles = 2
    /\ ret.result.Errors[1].idx = 2
    /\ ret.result.Errors[2].idx = 1
    /\ ret.result.Errors[1].kind # ret.result.Errors[2].kind

\* C29: no worker crashes on a listed object: for every key of the listing,
\* the empty key included, downloadObject returns and the object taken by a
\* worker is held by it until its event is sent.
C29_WorkerNeverCrashes ==
    /\ pc # "panicked"
    /\ pc = "aggregate" =>
          \A i \in 1..N :
              taken[i] > emitted[i] => \E w \in Workers : wobj[w] = i /\ wpc[w] # "recv"

\* C30: the clone command returns an error exactly when DownloadFolder
\* returned an error or a result with at least one per-object error, so it
\* succeeds only when every listed object has a successful event; when the
\* result has per-object errors, the summary and then each error were
\* printed before the command failed.
C30_CloneFailsOnAnyError ==
    cmd.done =>
        /\ cmd.err # NoError <=>
              (ret.err # NoError \/ (~ret.nilResult /\ ret.result.Errors # <<>>))
        /\ cmd.err = NoError =>
              \A i \in 1..N : EventsOf(i) # {} /\ ErrorOf(i) = NoError
        /\ (~ret.nilResult /\ ret.result.Errors # <<>>) =>
              /\ cmd.out = <<Summary(ret.result)>> \o FailuresIn(cbLog)
              /\ cmd.out[1].failed = Len(cmd.out) - 1

\* one of two objects failed: the summary and its error were printed and
\* the command failed
C30_Witness ==
    /\ cmd.done
    /\ N = 2
    /\ ~ret.nilResult
    /\ ret.result.FailedFiles = 1
    /\ ret.result.SuccessfulFiles = 1
    /\ cmd.err # NoError
    /\ Len(cmd.out) = 2

=============================================================================
